---- MODULE Spec2Model ----
(***************************************************************************)
(* Model of pylinkparse.epochs.Epochs.__init__ (src/pylinkparse/epochs.py). *)
(*                                                                         *)
(* The constructor is one synchronous call.  It is modelled as a state     *)
(* machine whose steps are the constructor's phases, in program order:     *)
(*   scan       lines 46-67   one loop iteration per step                  *)
(*   select     lines 69-70   events[keep_idx], np.min(min_samples)        *)
(*   assemble   lines 72-90   per-code frames, concat, sort, assert        *)
(*   index      lines 91-114  times column, set_index, null columns        *)
(*   attribute  lines 117-131 one zip pair (ii, ind) per step              *)
(* An exception anywhere aborts the construction (pc = "error").           *)
(*                                                                         *)
(* Time is counted in integer ticks; consecutive samples are Period ticks  *)
(* apart and the first sample is at tick 0.                                *)
(***************************************************************************)
EXTENDS Integers, Sequences, FiniteSets, TLC

(* ------------------------------ bounds --------------------------------- *)
NSamples == 4
MaxMarkers == 3
MaxRows == 2

(* ---------------------- the Recording collaborator --------------------- *)
Period == 2

Kinds == <<"saccades", "fixations", "blinks">>

\* raw[:] -> times: the absolute time of sample i
Times(i) == i * Period

\* raw.time_as_index: time * sfreq, cast to int (truncates toward zero)
TimeAsIndex(t) == IF t >= 0 THEN t \div Period ELSE -((-t) \div Period)

(* ------------------------------ helpers -------------------------------- *)
Range(s) == {s[i] : i \in DOMAIN s}

MaxOf(a, b) == IF a >= b THEN a ELSE b

MinOf(a, b) == IF a <= b THEN a ELSE b

\* np.arange(lo, hi)
Arange(lo, hi) == [k \in 1..MaxOf(hi - lo, 0) |-> lo + k - 1]

\* np.min over a non-empty list
NpMin(s) == CHOOSE m \in Range(s) : \A x \in Range(s) : m <= x

\* np.any over an integer array: some element is non-zero
NpAny(ind) == \E k \in DOMAIN ind : ind[k] # 0

\* i[:n]
TruncateTail(i, n) == SubSeq(i, Len(i) - MinOf(Len(i), n) + 1, Len(i))
Truncate(i, n) == SubSeq(i, 1, MinOf(Len(i), n))

\* the codes of event_id as a list, and the label each row is tagged with
MyEventId(eid) == eid.codes

Admissible(eid, c) == c \in Range(MyEventId(eid))

Label(eid, c) == IF eid.dict THEN eid.keys[c] ELSE c

\* raw._samples.iloc[i]: the sample a (possibly negative) position selects
IlocOk(i) == i >= -NSamples /\ i < NSamples
Iloc(i) == IF i >= 0 THEN i ELSE NSamples + i

RECURSIVE Concat(_)
Concat(ss) == IF ss = <<>> THEN <<>> ELSE Head(ss) \o Concat(Tail(ss))

RowLess(a, b) ==
    \/ a.epoch_idx < b.epoch_idx
    \/ a.epoch_idx = b.epoch_idx /\ a.time < b.time

RECURSIVE Insert(_, _)
Insert(r, s) ==
    IF s = <<>> THEN <<r>>
    ELSE IF RowLess(r, Head(s)) THEN <<r>> \o s
    ELSE <<Head(s)>> \o Insert(r, Tail(s))

\* DataFrame.sort(['epoch_idx', 'time'])
RECURSIVE SortRows(_)
SortRows(s) == IF s = <<>> THEN <<>> ELSE Insert(Head(s), SortRows(Tail(s)))

\* None / np.nan
Null == <<>>

(* ------------------------------- inputs -------------------------------- *)
Codes == {1, 2, 3}

EventIds ==
    { [dict |-> FALSE, codes |-> <<1>>, keys |-> <<>>],
      [dict |-> TRUE, codes |-> <<1, 2>>, keys |-> <<101, 102>>] }

Markers == (0..(NSamples - 1)) \X Codes

\* marker lists with at most one marker per sample
MarkerLists(n) ==
    UNION { { s \in [1..k -> Markers] :
                \A i, j \in 1..k : i # j => s[i][1] # s[j][1] } : k \in 0..n }

FullTMin == -(Period * (NSamples \div 2))
FullTMax == Period * (NSamples - (NSamples \div 2))

TMins == {FullTMin, -(Period + 1), 0}
TMaxs == {Period, FullTMax}

Intervals ==
    { <<0, 2 * Period>>, <<Period, 3 * Period>>, <<0, Period>>, <<Period, Period>> }

Tables(n) == UNION { [1..k -> Intervals] : k \in 0..n }

VARIABLES
    raw,          \* the recording's discrete-event tables, kind -> <<stime, etime>> rows
    events,       \* the events argument: <<sample index, code>> markers
    event_id,     \* the event_id argument (line 28)
    tmin, tmax,   \* the window, in ticks (lines 29-30)
    pc,           \* the phase __init__ is in, "done" once it has returned
    err,          \* the exception that left __init__, "none" otherwise
    pos,          \* position in events of the marker the loop of line 46 is at
    ii,           \* ii (lines 44, 67)
    keep_idx,     \* keep_idx (lines 43, 66)
    raw_counts,   \* the list min_samples of lines 45 and 55
    sample_inds,  \* sample_inds (lines 39, 57): code -> [inds, ii] entries
    parsed_inds,  \* parsed_inds (lines 39-41, 65): kind -> code -> row numbers
    accepted,     \* history: the positions in events whose iteration reached line 66
    self_events,  \* self.events (line 69)
    min_samples,  \* min_samples after line 70
    data,         \* self.data (lines 88-131): rows [sample, time, event_id,
                  \*   epoch_idx, times, attr], attr being the columns stime, etime
    track_inds,   \* track_inds (lines 74, 84)
    self_times,   \* self.times (line 93)
    akind, acode, apair  \* positions of the loops of lines 117, 121 and 122

vars == <<raw, events, event_id, tmin, tmax,
          pc, err, pos, ii, keep_idx, raw_counts, sample_inds, parsed_inds,
          accepted, self_events, min_samples, data, track_inds, self_times,
          akind, acode, apair>>

inputs == <<raw, events, event_id, tmin, tmax>>
scanvars == <<pos, ii, keep_idx, raw_counts, sample_inds, parsed_inds, accepted>>
attrvars == <<akind, acode, apair>>

NoTables == [k \in Range(Kinds) |-> <<>>]

\* arbitrary marker lists and windows over a recording without discrete events
InitMarkers ==
    /\ events \in MarkerLists(MaxMarkers)
    /\ tmin \in TMins
    /\ tmax \in TMaxs
    /\ raw = NoTables

\* discrete-event tables under the window that spans the whole recording
InitTables ==
    /\ events \in MarkerLists(MinOf(MaxMarkers, 2))
    /\ tmin = FullTMin
    /\ tmax = FullTMax
    /\ \E s \in Tables(MaxRows), f \in Tables(MinOf(MaxRows, 1)) :
          raw = [NoTables EXCEPT !["saccades"] = s, !["fixations"] = f]

Init ==
    /\ event_id \in EventIds
    /\ (InitMarkers \/ InitTables)
    /\ pc = "scan"
    /\ err = "none"
    /\ pos = 1
    /\ ii = 0
    /\ keep_idx = <<>>
    /\ raw_counts = <<>>
    /\ sample_inds = [c \in Range(MyEventId(event_id)) |-> <<>>]
    /\ parsed_inds = [k \in Range(Kinds) |->
                        [c \in Range(MyEventId(event_id)) |-> <<>>]]
    /\ accepted = <<>>
    /\ self_events = <<>>
    /\ min_samples = 0
    /\ data = <<>>
    /\ track_inds = <<>>
    /\ self_times = [den |-> 1, num |-> <<>>]
    /\ akind = 1
    /\ acode = 1
    /\ apair = 1

(* ------------------------- scan: lines 46-67 --------------------------- *)
Scanning == pc = "scan" /\ pos <= Len(events)

this_id == events[pos][2]
this_time == Times(events[pos][1])
this_tmin == this_time + tmin
this_tmax == this_time + tmax
inds_min == TimeAsIndex(this_tmin)
inds_max == TimeAsIndex(this_tmax)

\* np.where((stime >= lo) & (etime <= hi))[0], row numbers from 0
EventInWindow(tab, lo, hi) ==
    LET F[k \in 0..Len(tab)] ==
            IF k = 0 THEN <<>>
            ELSE IF tab[k][1] >= lo /\ tab[k][2] <= hi
                 THEN Append(F[k - 1], k - 1)
                 ELSE F[k - 1]
    IN F[Len(tab)]

\* assert_array_less(stime, etime)
ArrayLess(tab) == \A k \in DOMAIN tab : tab[k][1] < tab[k][2]

\* an exception leaves __init__: no object is produced.  The values of e:
\*   interval_assert  line 62, assert_array_less(stime, etime)
\*   min_of_empty     line 70, np.min of an empty list
\*   unpack_empty     line 76, ind, _ = zip(*values) with values empty
\*   index_error      line 78, iloc position outside the sample table
\*   track_assert     line 90, assert set(track_inds) == set([min_samples])
\*   length_mismatch  line 94, column length differs from the table length
\*   duplicate_key    line 97, verify_integrity
Abort(e) ==
    /\ pc' = "error"
    /\ err' = e

SkipMarkerConsumesIndex ==
    /\ Scanning
    /\ ~Admissible(event_id, this_id)
    /\ pos' = pos + 1
    /\ ii' = ii + 1
    /\ UNCHANGED <<inputs, pc, err, keep_idx, raw_counts, sample_inds,
                   parsed_inds, accepted, self_events, min_samples, data,
                   track_inds, self_times, attrvars>>

\* lines 47-48: continue
SkipMarker ==
    /\ Scanning
    /\ ~Admissible(event_id, this_id)
    /\ pos' = pos + 1
    /\ UNCHANGED <<inputs, pc, err, ii, keep_idx, raw_counts, sample_inds,
                   parsed_inds, accepted, self_events, min_samples, data,
                   track_inds, self_times, attrvars>>

BreakScanSkipsOne ==
    /\ Scanning
    /\ Admissible(event_id, this_id)
    /\ MaxOf(inds_min, inds_max) >= NSamples
    /\ pos' = pos + 1
    /\ UNCHANGED <<inputs, pc, err, ii, keep_idx, raw_counts, sample_inds,
                   parsed_inds, accepted, self_events, min_samples, data,
                   track_inds, self_times, attrvars>>

\* lines 52-53: break
BreakScan ==
    /\ Scanning
    /\ Admissible(event_id, this_id)
    /\ MaxOf(inds_min, inds_max) >= NSamples
    /\ pc' = "select"
    /\ UNCHANGED <<inputs, err, scanvars, self_events, min_samples, data,
                   track_inds, self_times, attrvars>>

\* lines 54-67
AcceptMarker ==
    /\ Scanning
    /\ Admissible(event_id, this_id)
    /\ MaxOf(inds_min, inds_max) < NSamples
    /\ IF \A k \in Range(Kinds) : ArrayLess(raw[k])
       THEN /\ raw_counts' = Append(raw_counts, Len(Arange(inds_min, inds_max)))
            /\ sample_inds' =
                 [sample_inds EXCEPT ![this_id] =
                    Append(@, [inds |-> Arange(inds_min, inds_max), ii |-> ii])]
            /\ parsed_inds' =
                 [k \in Range(Kinds) |->
                    [parsed_inds[k] EXCEPT ![this_id] =
                       Append(@, EventInWindow(raw[k], this_tmin, this_tmax))]]
            /\ keep_idx' = Append(keep_idx, ii)
            /\ accepted' = Append(accepted, pos)
            /\ ii' = ii + 1
            /\ pos' = pos + 1
            /\ UNCHANGED <<pc, err>>
       ELSE /\ Abort("interval_assert")
            /\ UNCHANGED scanvars
    /\ UNCHANGED <<inputs, self_events, min_samples, data, track_inds,
                   self_times, attrvars>>

(* ------------------------ select: lines 69-70 -------------------------- *)
\* events[keep_idx]
TakeEvents(ev, idx) == [k \in 1..Len(idx) |-> ev[idx[k] + 1]]

SelectEvents ==
    /\ \/ pc = "select"
       \/ pc = "scan" /\ pos > Len(events)
    /\ self_events' = TakeEvents(events, keep_idx)
    /\ IF raw_counts = <<>>
       THEN /\ Abort("min_of_empty")
            /\ UNCHANGED min_samples
       ELSE /\ pc' = "assemble"
            /\ min_samples' = NpMin(raw_counts)
            /\ UNCHANGED err
    /\ UNCHANGED <<inputs, scanvars, data, track_inds, self_times, attrvars>>

(* ----------------------- assemble: lines 72-90 ------------------------- *)
\* lines 76-82: the frame of one code
Frame(c) ==
    LET values == sample_inds[c]
        ind == [k \in DOMAIN values |-> Truncate(values[k].inds, min_samples)]
        rows(k) == [j \in DOMAIN ind[k] |->
                      [sample |-> Iloc(ind[k][j]),
                       time |-> Times(Iloc(ind[k][j])),
                       event_id |-> Label(event_id, c),
                       epoch_idx |-> values[k].ii,
                       times |-> Null,
                       attr |-> Null]]
    IN Concat([k \in DOMAIN values |-> rows(k)])

TrackInds(c) ==
    [k \in DOMAIN sample_inds[c] |->
        Len(Truncate(sample_inds[c][k].inds, min_samples))]

AssembleTable ==
    /\ pc = "assemble"
    /\ LET ids == MyEventId(event_id) IN
       IF \E k \in DOMAIN ids : sample_inds[ids[k]] = <<>>
       THEN /\ Abort("unpack_empty")
            /\ UNCHANGED <<data, track_inds>>
       ELSE IF \E k \in DOMAIN ids : \E v \in Range(sample_inds[ids[k]]) :
                  \E i \in Range(Truncate(v.inds, min_samples)) : ~IlocOk(i)
       THEN /\ Abort("index_error")
            /\ UNCHANGED <<data, track_inds>>
       ELSE LET tr == Concat([k \in DOMAIN ids |-> TrackInds(ids[k])]) IN
            /\ data' = SortRows(Concat([k \in DOMAIN ids |-> Frame(ids[k])]))
            /\ track_inds' = tr
            /\ IF Range(tr) = {min_samples}
               THEN pc' = "index" /\ UNCHANGED err
               ELSE Abort("track_assert")
    /\ UNCHANGED <<inputs, scanvars, self_events, min_samples, self_times,
                   attrvars>>

(* ------------------------ index: lines 91-114 -------------------------- *)
\* np.linspace(tmin, tmax, n), as numerators over the common denominator den
Linspace(lo, hi, n) ==
    [den |-> IF n > 1 THEN n - 1 ELSE 1,
     num |-> [k \in 1..n |->
                IF n > 1 THEN lo * (n - 1) + (k - 1) * (hi - lo) ELSE lo]]

\* np.tile(a, n)
Tile(a, n) == [k \in 1..(Len(a) * n) |-> a[((k - 1) % Len(a)) + 1]]

AllTimes == [k \in 1..NSamples |-> Times(k - 1)]

\* line 94: np.tile(times, n_epochs), times being the recording's from line 31
TimesColumn(n_epochs) ==
    Tile([k \in 1..NSamples |-> <<AllTimes[k], 1>>], n_epochs)

\* verify_integrity: the key (epoch_idx, times) is unique
UniqueKey(d) ==
    \A i, j \in DOMAIN d :
        (d[i].epoch_idx = d[j].epoch_idx /\ d[i].times = d[j].times) => i = j

SetIndex ==
    /\ pc = "index"
    /\ self_times' = Linspace(tmin, tmax, min_samples)
    /\ LET col == TimesColumn(Len(track_inds))
           d == [r \in DOMAIN data |-> [data[r] EXCEPT !.times = col[r]]]
       IN IF Len(col) # Len(data)
          THEN /\ Abort("length_mismatch")
               /\ UNCHANGED data
          ELSE /\ data' = d
               /\ IF UniqueKey(d)
                  THEN pc' = "attribute" /\ UNCHANGED err
                  ELSE Abort("duplicate_key")
    /\ UNCHANGED <<inputs, scanvars, self_events, min_samples, track_inds,
                   attrvars>>

(* --------------------- attribute: lines 117-131 ------------------------ *)
\* set(d.index.labels[0]), in iteration order
EpochLabels ==
    LET n == Cardinality({data[r].epoch_idx : r \in DOMAIN data})
    IN [k \in 1..n |-> k - 1]

Attributing == pc = "attribute" /\ akind <= Len(Kinds)

cur_kind == Kinds[akind]
cur_id == MyEventId(event_id)[acode]
cur_values == parsed_inds[cur_kind][cur_id]
n_pairs == MinOf(Len(EpochLabels), Len(cur_values))

\* lines 126-128: a & b on the rows of d.loc[ep]
Here(ep, row, r) ==
    /\ data[r].epoch_idx = ep
    /\ data[r].time > row[1]
    /\ data[r].time < row[2]

\* line 130: this_in[column][0], for the columns stime and etime, which every
\* kind's table has (line 61) and which are one pair of columns of d
WrittenValue(this_in, iii) == this_in[1]

\* lines 124-131 for one pair (ep, ind); the assignment through
\* this_out[column].iloc[here] is taken to reach the rows of self.data
Overlay(d, kind, ep, ind) ==
    LET this_in == raw[kind]
        F[k \in 0..Len(ind)] ==
            IF k = 0 THEN d
            ELSE [r \in DOMAIN d |->
                    IF Here(ep, this_in[ind[k] + 1], r)
                    THEN [F[k - 1][r] EXCEPT
                            !.attr = WrittenValue(this_in, ind[k] + 1)]
                    ELSE F[k - 1][r]]
    IN IF NpAny(ind) THEN F[Len(ind)] ELSE d

\* one iteration of the loop of line 122
AttributePair ==
    /\ Attributing
    /\ apair <= n_pairs
    /\ data' = Overlay(data, cur_kind, EpochLabels[apair], cur_values[apair])
    /\ apair' = apair + 1
    /\ UNCHANGED <<inputs, pc, err, scanvars, self_events, min_samples,
                   track_inds, self_times, akind, acode>>

\* the loop of line 122 is exhausted: next code (line 121), next kind (line 117)
NextGroup ==
    /\ Attributing
    /\ apair > n_pairs
    /\ apair' = 1
    /\ IF acode < Len(MyEventId(event_id))
       THEN acode' = acode + 1 /\ UNCHANGED akind
       ELSE acode' = 1 /\ akind' = akind + 1
    /\ UNCHANGED <<inputs, pc, err, scanvars, self_events, min_samples, data,
                   track_inds, self_times>>

\* __init__ returns
Finish ==
    /\ pc = "attribute"
    /\ akind > Len(Kinds)
    /\ pc' = "done"
    /\ UNCHANGED <<inputs, err, scanvars, self_events, min_samples, data,
                   track_inds, self_times, attrvars>>

Next ==
    \/ SkipMarker
    \/ BreakScan
    \/ AcceptMarker
    \/ SelectEvents
    \/ AssembleTable
    \/ SetIndex
    \/ AttributePair
    \/ NextGroup
    \/ Finish

Spec == Init /\ [][Next]_vars


(* ---------------- what the inputs say about each marker ---------------- *)
MarkerCode(p) == events[p][2]
MarkerTime(p) == Times(events[p][1])
WinMin(p) == MarkerTime(p) + tmin
WinMax(p) == MarkerTime(p) + tmax
IndsMin(p) == TimeAsIndex(WinMin(p))
IndsMax(p) == TimeAsIndex(WinMax(p))
RawCount(p) == IndsMax(p) - IndsMin(p)

AdmissibleAt(p) == Admissible(event_id, MarkerCode(p))

Overruns(p) ==
    AdmissibleAt(p) /\ (IndsMin(p) >= NSamples \/ IndsMax(p) >= NSamples)

\* the first admissible marker whose window reaches the end of the recording
StopAt ==
    IF \E p \in DOMAIN events : Overruns(p)
    THEN CHOOSE p \in DOMAIN events :
            Overruns(p) /\ \A q \in 1..(p - 1) : ~Overruns(q)
    ELSE Len(events) + 1

ScanFinished == pc \in {"select", "assemble", "index", "attribute", "done"}

\* lines 72-89 have run: self.data holds the assembled, sorted table
TableAssembled ==
    \/ pc \in {"index", "attribute", "done"}
    \/ pc = "error" /\ err \in {"length_mismatch", "duplicate_key"}

EpochRows(e) == {r \in DOMAIN data : data[r].epoch_idx = e}

EpochsInTable == {data[r].epoch_idx : r \in DOMAIN data}

NEntries(c) == Len(sample_inds[c])

RECURSIVE SumEntries(_)
SumEntries(cs) ==
    IF cs = {} THEN 0
    ELSE LET c == CHOOSE x \in cs : TRUE IN NEntries(c) + SumEntries(cs \ {c})

(* ------------------------------- C1 ------------------------------------ *)
\* C1: once the table is assembled (hence in every successful construction)
\* every epoch has exactly min_samples rows, min_samples is the minimum over
\* the accepted markers of the raw window count inds_max - inds_min, and the
\* rows of an epoch are the first min_samples positions of its marker's
\* window (each sample as often as those positions select it).
C1_EqualLengthEpochs ==
    TableAssembled =>
        /\ \A k \in DOMAIN accepted : min_samples <= RawCount(accepted[k])
        /\ \E k \in DOMAIN accepted : min_samples = RawCount(accepted[k])
        /\ \A k \in DOMAIN accepted :
              /\ Cardinality(EpochRows(k - 1)) = min_samples
              /\ \A s \in 0..(NSamples - 1) :
                    Cardinality({r \in EpochRows(k - 1) : data[r].sample = s})
                    = Cardinality({j \in 0..(min_samples - 1) :
                                     Iloc(IndsMin(accepted[k]) + j) = s})
        /\ Len(data) = Len(accepted) * min_samples

\* an assembled table with a window longer than min_samples, cut at its tail
C1_Witness ==
    /\ TableAssembled
    /\ Len(accepted) >= 2
    /\ \E k \in DOMAIN accepted : RawCount(accepted[k]) > min_samples

(* ------------------------------- C2 ------------------------------------ *)
\* C2: when the scan has ended and some admissible marker's window start or
\* end index is >= the number of samples, the accepted markers are exactly
\* the admissible markers before the first such marker: that marker and all
\* later ones (also those whose windows fit) are excluded, earlier ones are
\* kept, and the epochs recorded (and the epochs of the assembled table) are
\* those of the accepted markers only.
C2_EarlyTermination ==
    (ScanFinished /\ StopAt <= Len(events)) =>
        /\ Range(accepted) = {p \in 1..(StopAt - 1) : AdmissibleAt(p)}
        /\ SumEntries(Range(MyEventId(event_id))) = Len(accepted)
        /\ TableAssembled =>
              EpochsInTable = {k - 1 : k \in DOMAIN accepted}

\* the scan was stopped by a marker, an earlier marker is kept, and a later
\* admissible marker whose window fits is excluded from the assembled table
C2_Witness ==
    /\ pc = "index"
    /\ StopAt <= Len(events)
    /\ accepted # <<>>
    /\ \E q \in (StopAt + 1)..Len(events) :
          /\ AdmissibleAt(q)
          /\ ~Overruns(q)
          /\ q \notin Range(accepted)

(* ------------------------------- C3 ------------------------------------ *)
\* C3: after a successful construction self.events is the subsequence of
\* the input markers made of the accepted markers, in input order.
C3_EventsAreAccepted ==
    pc = "done" =>
        self_events = [k \in DOMAIN accepted |-> events[accepted[k]]]

(* ------------------------------- C4 ------------------------------------ *)
\* C4: the k-th accepted marker (k = 1, 2, ...) holds epoch index k - 1:
\* the indices recorded are 0, 1, 2, ... without gaps, a skipped marker
\* consumes none, accepted markers are in input order, and in the assembled
\* table epoch k - 1 exists, carries the label of the k-th accepted marker's
\* code and starts at that marker's window, so a later accepted marker has
\* the strictly greater epoch_idx.
C4_SequentialEpochIndices ==
    /\ ii = Len(accepted)
    /\ \A k \in DOMAIN accepted :
          /\ k > 1 => accepted[k - 1] < accepted[k]
          /\ \E v \in Range(sample_inds[MarkerCode(accepted[k])]) :
                /\ v.ii = k - 1
                /\ v.inds = Arange(IndsMin(accepted[k]), IndsMax(accepted[k]))
    /\ \A c \in Range(MyEventId(event_id)) :
          \A v \in Range(sample_inds[c]) : v.ii \in 0..(Len(accepted) - 1)
    /\ TableAssembled =>
          /\ EpochsInTable = {k - 1 : k \in DOMAIN accepted}
          /\ \A k \in DOMAIN accepted :
                /\ \A r \in EpochRows(k - 1) :
                      data[r].event_id
                      = Label(event_id, MarkerCode(accepted[k]))
                /\ \E r \in EpochRows(k - 1) :
                      data[r].sample = Iloc(IndsMin(accepted[k]))

\* two accepted markers of different codes around a skipped one, assembled
C4_Witness ==
    /\ TableAssembled
    /\ \E a, b \in DOMAIN accepted :
          /\ a < b
          /\ MarkerCode(accepted[a]) # MarkerCode(accepted[b])
          /\ \E p \in (accepted[a] + 1)..(accepted[b] - 1) : ~AdmissibleAt(p)

(* ------------------------------- C5 ------------------------------------ *)
\* a discrete event of the kind lies within the window of marker p
Contained(kind, j, p) ==
    /\ raw[kind][j][1] >= WinMin(p)
    /\ raw[kind][j][2] <= WinMax(p)

\* C5: after construction, for each kind and each epoch, a row's attribute
\* columns are non-null exactly if its absolute time lies in
\* [start_time, end_time) of a discrete event of that kind contained in the
\* epoch's window (so they are null throughout an epoch without one).
C5_AttributedExactly ==
    pc = "done" =>
        \A kind \in Range(Kinds) : \A k \in DOMAIN accepted :
            \A r \in EpochRows(k - 1) :
                (data[r].attr # Null)
                <=> \E j \in DOMAIN raw[kind] :
                        /\ Contained(kind, j, accepted[k])
                        /\ raw[kind][j][1] <= data[r].time
                        /\ data[r].time < raw[kind][j][2]

(* ------------------------------- C6 ------------------------------------ *)
\* C6: a value written into a row's attribute columns is the value of a
\* discrete event (of some kind) whose stime/etime selected that row.
C6_OwnValueWritten ==
    \A r \in DOMAIN data :
        data[r].attr # Null =>
            \E kind \in Range(Kinds) : \E j \in DOMAIN raw[kind] :
                /\ data[r].attr = raw[kind][j]
                /\ raw[kind][j][1] < data[r].time
                /\ data[r].time < raw[kind][j][2]

(* ------------------------------- C7 ------------------------------------ *)
RatEq(a, b) == a[1] * b[2] = b[1] * a[2]

\* the relative axis as <<numerator, denominator>> pairs, tiled once per epoch
RelTimes(n) ==
    LET ax == Linspace(tmin, tmax, n)
    IN [k \in 1..n |-> <<ax.num[k], ax.den>>]

TimesColumnRelative(n_epochs) == Tile(RelTimes(min_samples), n_epochs)

\* C7: after construction the 'times' key of the k-th row of every epoch is
\* the k-th point of the relative axis self.times (min_samples evenly spaced
\* points from tmin to tmax), and the absolute time column is untouched.
C7_RelativeTimesColumn ==
    pc = "done" =>
        /\ self_times = Linspace(tmin, tmax, min_samples)
        /\ \A r \in DOMAIN data :
              /\ RatEq(data[r].times,
                       TimesColumnRelative(Len(accepted))[r])
              /\ data[r].time = Times(data[r].sample)

(* ------------------------------- C8 ------------------------------------ *)
\* C8: (every discrete event having start_time < end_time) construction is
\* aborted for lack of epochs exactly when no marker was accepted: no object
\* is produced without an accepted marker, and with one the construction
\* does not fail for want of epochs (np.min of nothing, line 70; unpacking
\* an empty group, line 76).
C8_NoEpochsExactly ==
    (\A kind \in Range(Kinds) : ArrayLess(raw[kind])) =>
        /\ pc = "done" => accepted # <<>>
        /\ (pc = "assemble" \/ TableAssembled) => accepted # <<>>
        /\ (pc = "error" /\ err \in {"min_of_empty", "unpack_empty"})
              => accepted = <<>>

(* ------------------------------- C9 ------------------------------------ *)
\* the epoch index of the marker whose recorded discrete events are overlaid
OwnerEpoch == sample_inds[cur_id][apair].ii

\* C9: an attributor step changes rows of one epoch only: the epoch of the
\* marker for which the discrete events being written were recorded.
C9_WrittenIntoOwnEpoch ==
    [][(Attributing /\ apair <= n_pairs) =>
          \A r \in DOMAIN data :
              data'[r].attr # data[r].attr => data[r].epoch_idx = OwnerEpoch]_vars

(* ------------------------------- C10 ----------------------------------- *)
\* C10: every accepted marker's window lies inside the recording:
\* 0 <= inds_min <= inds_max < number of samples.
C10_WindowInsideRecording ==
    \A k \in DOMAIN accepted :
        /\ 0 <= IndsMin(accepted[k])
        /\ IndsMin(accepted[k]) <= IndsMax(accepted[k])
        /\ IndsMax(accepted[k]) < NSamples

====
